---- MODULE Spec2Model ----
(***************************************************************************)
(* The Outline editor of packages/outline/src/OutlineEditor.js: the        *)
(* editor object, its update scheduler (sync path, deferred path through   *)
(* a promise microtask, reentrancy guard), its construction and the hook   *)
(* that rebinds the change callback.  The reconciler (updateViewModel),    *)
(* the view-model class and the view-model factory live in OutlineView.js  *)
(* and are modelled from their contract.                                   *)
(*                                                                         *)
(* JavaScript runs one call stack.  `stack` holds the updateViewModel      *)
(* calls in progress; user code (the caller of the editor, or the change   *)
(* callback running inside updateViewModel) makes calls only when the      *)
(* stack is empty or the top frame is inside the change callback.  A       *)
(* promise microtask runs only when the stack is empty.                    *)
(***************************************************************************)
EXTENDS Integers, Sequences, FiniteSets, TLC

\* Bounds of the model.
MaxCalls == 2         \* update calls made by user code
MaxViewModels == 2    \* view models made by the factory (besides the initial one)
MaxApiCalls == 4      \* calls of any kind (construction included) in ApiSpec

\* Node keys of the document tree: the root and one child.
Keys == {"body", "x"}

\* A nullable Set<NodeKey>: null is {}, a set S is {S}.
Null == {}
Some(S) == {S}

\* The key sets a mutation callback of the factory touches.
DirtyChoices == {{"x"}, {"body", "x"}}

\* onChangeType = ?(viewModel) => void : a function or undefined.
Callbacks == {"undefined", "onChange"}

\* The node types the constructor registers.
BaselineNodeTypes ==
    [n \in {"block", "text", "body", "paragraph", "header"} |->
        CASE n = "block" -> "BlockNode"
          [] n = "text" -> "TextNode"
          [] n = "body" -> "BodyNode"
          [] n = "paragraph" -> "ParagraphNode"
          [] n = "header" -> "HeaderNode"]

\* What user code registers: a new type name and a built-in one, two classes,
\* two transform functions.
TypeNames == {"custom", "text"}
Classes == {"K1", "K2"}
Transforms == {"t1", "t2"}

VARIABLES
    outlineEditor,   \* hook state of useOutlineEditor: "null" or "editor"
    editorElement,   \* this._editorElement
    viewModel,       \* this._viewModel: index into vms (0 before construction)
    isUpdating,      \* this._isUpdating
    keyToDOMMap,     \* this._keyToDOMMap
    onChange,        \* this._onChange
    vms,             \* the heap of ViewModel objects, by reference (index)
    microtasks,      \* the promise microtask queue: the pending .then callbacks
    stack,           \* updateViewModel calls in progress, innermost last
    requests,        \* history: every update call, in call order
    reconciles,      \* history: every Reconciler invocation, in order
    notifications,   \* history: every change-callback invocation, in order
    registeredNodeTypes, \* this._registeredNodeTypes: type name -> class
    textTransforms,  \* this._textTransforms
    capabilities,    \* the closures addNodeType / addTextTransform have returned
    nodeTypeOwner,   \* history: which addNodeType call made each registry entry
                     \* (0: the constructor)
    lastCall,        \* history: the last accessor or capability call, with its result
    apiCalls         \* history: number of registry, accessor and capability calls

registryVars == <<registeredNodeTypes, textTransforms, capabilities,
                  nodeTypeOwner, lastCall, apiCalls>>

vars == <<outlineEditor, editorElement, viewModel, isUpdating, keyToDOMMap,
          onChange, vms, microtasks, stack, requests, reconciles, notifications,
          registryVars>>

editorVars == <<outlineEditor, editorElement, keyToDOMMap, registryVars>>

----------------------------------------------------------------------------
\* OutlineView.js / OutlineBodyNode.js (contract)

\* createBodyNode(): a fresh root node.
createBodyNode == [key |-> "body", type |-> "body", version |-> 1]

\* new ViewModel(body): empty node map, no selection, dirty tracking cleared.
NewViewModel(body) ==
    [body |-> body,
     nodeMap |-> [k \in {} |-> body],
     selection |-> "null",
     dirtyNodes |-> Null,
     dirtySubTrees |-> Null]

\* obj[key] = value on a node map.
SetKey(nodeMap, key, value) ==
    [k \in (DOMAIN nodeMap) \cup {key} |-> IF k = key THEN value ELSE nodeMap[k]]

----------------------------------------------------------------------------
Init ==
    /\ outlineEditor = "null"
    /\ editorElement = "null"
    /\ viewModel = 0
    /\ isUpdating = FALSE
    /\ keyToDOMMap = [k \in {} |-> "null"]
    /\ onChange = "undefined"
    /\ vms = <<>>
    /\ microtasks = <<>>
    /\ stack = <<>>
    /\ requests = <<>>
    /\ reconciles = <<>>
    /\ notifications = <<>>
    /\ registeredNodeTypes = [n \in {} |-> "null"]
    /\ textTransforms = {}
    /\ capabilities = <<>>
    /\ nodeTypeOwner = [n \in {} |-> 0]
    /\ lastCall = [op |-> "none"]
    /\ apiCalls = 0

\* typeof onChange === 'function'
IsFunction(cb) == cb # "undefined"

\* Mutant: createOutlineEditor does not call onChange.
createOutlineEditorSilent(element, cb) ==
    LET body == createBodyNode
        vm0 == NewViewModel(body)
        vm1 == [vm0 EXCEPT !.nodeMap = SetKey(vm0.nodeMap, "body", body)]
    IN  /\ vms' = Append(vms, vm1)
        /\ editorElement' = element
        /\ viewModel' = Len(vms) + 1
        /\ isUpdating' = FALSE
        /\ keyToDOMMap' = SetKey([k \in {} |-> "null"], "body", element)
        /\ onChange' = cb
        /\ textTransforms' = {}
        /\ registeredNodeTypes' = BaselineNodeTypes
        /\ nodeTypeOwner' = [n \in DOMAIN BaselineNodeTypes |-> 0]
        /\ outlineEditor' = "editor"
        /\ UNCHANGED <<microtasks, stack, requests, reconciles, notifications,
                       capabilities, lastCall, apiCalls>>

\* Mutant: createOutlineEditor does not bind the root key to the element.
createOutlineEditorUnbound(element, cb) ==
    LET body == createBodyNode
        vm0 == NewViewModel(body)
        vm1 == [vm0 EXCEPT !.nodeMap = SetKey(vm0.nodeMap, "body", body)]
    IN  /\ vms' = Append(vms, vm1)
        /\ editorElement' = element
        /\ viewModel' = Len(vms) + 1
        /\ isUpdating' = FALSE
        /\ keyToDOMMap' = [k \in {} |-> "null"]
        /\ onChange' = cb
        /\ notifications' =
              IF IsFunction(cb)
              THEN Append(notifications,
                          [vm |-> Len(vms) + 1, via |-> "construct", req |-> 0])
              ELSE notifications
        /\ textTransforms' = {}
        /\ registeredNodeTypes' = BaselineNodeTypes
        /\ nodeTypeOwner' = [n \in DOMAIN BaselineNodeTypes |-> 0]
        /\ outlineEditor' = "editor"
        /\ UNCHANGED <<microtasks, stack, requests, reconciles, capabilities,
                       lastCall, apiCalls>>

\* createOutlineEditor(editorElement, onChange), with the constructor it calls.
createOutlineEditor(element, cb) ==
    LET body == createBodyNode
        vm0 == NewViewModel(body)
        vm1 == [vm0 EXCEPT !.nodeMap = SetKey(vm0.nodeMap, "body", body)]
    IN  /\ vms' = Append(vms, vm1)
        /\ editorElement' = element
        /\ viewModel' = Len(vms) + 1
        /\ isUpdating' = FALSE
        /\ keyToDOMMap' = SetKey([k \in {} |-> "null"], "body", element)
        /\ onChange' = cb
        /\ notifications' =
              IF IsFunction(cb)
              THEN Append(notifications,
                          [vm |-> Len(vms) + 1, via |-> "construct", req |-> 0])
              ELSE notifications
        /\ textTransforms' = {}
        /\ registeredNodeTypes' = BaselineNodeTypes
        /\ nodeTypeOwner' = [n \in DOMAIN BaselineNodeTypes |-> 0]
        /\ outlineEditor' = "editor"
        /\ UNCHANGED <<microtasks, stack, requests, reconciles, capabilities,
                       lastCall, apiCalls>>

\* The effect of useOutlineEditor, run by the host with the element attached.
useOutlineEditor(element, cb) ==
    /\ stack = <<>>
    /\ element # "null"
    /\ IF outlineEditor = "null"
       THEN createOutlineEditor(element, cb)
       ELSE /\ onChange' = cb
            /\ UNCHANGED <<outlineEditor, editorElement, viewModel, isUpdating,
                           keyToDOMMap, vms, microtasks, stack, requests,
                           reconciles, notifications, registryVars>>

----------------------------------------------------------------------------
\* User code holds the thread: the host between editor calls, or the change
\* callback running inside updateViewModel.
Top == stack[Len(stack)]
InCallback == stack # <<>> /\ Top.pc = "callback"
UserTurn == outlineEditor = "editor" /\ (stack = <<>> \/ InCallback)

ViewModelRefs == 1..Len(vms)

\* createNode for a key touched by the factory's mutation callback.
NodeOf(key, version) ==
    [key |-> key, type |-> IF key = "body" THEN "body" ELSE "text", version |-> version]

\* OutlineView.createViewModel(base, callbackFn, editor): a pending view model
\* cloned from the base, with the keys the callback touched recorded as dirty.
FactoryViewModel(base, dirty, version) ==
    [body |-> IF "body" \in dirty THEN NodeOf("body", version) ELSE base.body,
     nodeMap |-> [k \in (DOMAIN base.nodeMap) \cup dirty |->
                     IF k \in dirty THEN NodeOf(k, version) ELSE base.nodeMap[k]],
     selection |-> base.selection,
     dirtyNodes |-> Some(dirty),
     dirtySubTrees |-> Some(IF dirty = {} THEN {} ELSE {"body"})]

\* editor.createViewModel(callbackFn)
createViewModel(dirty) ==
    /\ UserTurn
    /\ Len(vms) < 1 + MaxViewModels
    /\ vms' = Append(vms, FactoryViewModel(vms[viewModel], dirty, Len(vms) + 1))
    /\ UNCHANGED <<editorVars, viewModel, isUpdating, onChange, microtasks, stack,
                   requests, reconciles, notifications>>

----------------------------------------------------------------------------
\* OutlineView.updateViewModel(viewModel, editor): the Reconciler.

\* The call itself: the Reconciler starts on vm.
updateViewModel(vm, req, via) ==
    /\ reconciles' = Append(reconciles,
                            [vm |-> vm, req |-> req, via |-> via,
                             updating |-> isUpdating', onChange |-> onChange])
    /\ stack' = Append(stack, [vm |-> vm, req |-> req, via |-> via, pc |-> "commit"])

\* The presentation surface is patched; vm becomes the current view model and
\* its dirty tracking is cleared.
Committed(vm) == [vm EXCEPT !.dirtyNodes = Null, !.dirtySubTrees = Null]

\* The element of a key the Reconciler has put on the presentation surface.
ElementOf(key) == IF key = "body" THEN "element-body" ELSE "element-x"

\* The key -> element map after the surface is patched to vm: a binding for
\* every key of vm's tree, the bindings of removed keys dropped, the root's
\* binding left as it is.
Patched(map, vm) ==
    [k \in (DOMAIN vm.nodeMap) \cup ({"body"} \cap DOMAIN map) |->
        IF k \in DOMAIN map THEN map[k] ELSE ElementOf(k)]

reconcileCommit ==
    /\ stack # <<>>
    /\ Top.pc = "commit"
    /\ keyToDOMMap' = Patched(keyToDOMMap, vms[Top.vm])
    /\ viewModel' = Top.vm
    /\ vms' = [vms EXCEPT ![Top.vm] = Committed(vms[Top.vm])]
    /\ stack' = [stack EXCEPT ![Len(stack)].pc = "notify"]
    /\ UNCHANGED <<outlineEditor, editorElement, registryVars, isUpdating, onChange,
                   microtasks, requests, reconciles, notifications>>

\* The change callback is called with the view model just committed.
notifyOnChange ==
    /\ stack # <<>>
    /\ Top.pc = "notify"
    /\ IF IsFunction(onChange)
       THEN /\ notifications' = Append(notifications,
                                       [vm |-> Top.vm, via |-> Top.via, req |-> Top.req])
            /\ stack' = [stack EXCEPT ![Len(stack)].pc = "callback"]
       ELSE /\ stack' = SubSeq(stack, 1, Len(stack) - 1)
            /\ UNCHANGED notifications
    /\ UNCHANGED <<editorVars, viewModel, isUpdating, onChange, vms, microtasks,
                   requests, reconciles>>

\* The change callback returns, and updateViewModel with it.
callbackReturn ==
    /\ InCallback
    /\ stack' = SubSeq(stack, 1, Len(stack) - 1)
    /\ UNCHANGED <<editorVars, viewModel, isUpdating, onChange, vms, microtasks,
                   requests, reconciles, notifications>>

----------------------------------------------------------------------------
\* OutlineEditor.update(viewModel, forceSync)

\* Mutant: the reentrancy guard is missing.
IsReentrantUnguarded == FALSE

\* if (this._isUpdating)
IsReentrant == isUpdating

\* Mutant: the identity check against the current view model is missing.
IsCurrentNever(vm) == FALSE

\* if (viewModel === this._viewModel)
IsCurrent(vm) == vm = viewModel

\* Mutant: forceSync is ignored and every update runs inline.
IsSyncAlways(forceSync) == TRUE

\* Mutant: forceSync is ignored and every update is deferred.
IsSyncNever(forceSync) == FALSE

\* if (forceSync)
IsSync(forceSync) == forceSync

\* The history entry of a call: its arguments, what the editor held when it was
\* made (the current view model, the flag, the microtask queue) and how it ended.
Request(vm, forceSync, outcome) ==
    [vm |-> vm, forceSync |-> forceSync, outcome |-> outcome,
     current |-> viewModel, updating |-> isUpdating, pending |-> Len(microtasks)]

\* Mutant: a rejected call also drops the scheduled microtask.
updateThrowsCancels(vm, forceSync) ==
    /\ requests' = Append(requests, Request(vm, forceSync, "ReentrancyError"))
    /\ microtasks' = <<>>
    /\ UNCHANGED <<editorVars, viewModel, isUpdating, onChange, vms,
                   stack, reconciles, notifications>>

\* throw new Error('TODOL: Should never occur?')
updateThrows(vm, forceSync) ==
    /\ requests' = Append(requests, Request(vm, forceSync, "ReentrancyError"))
    /\ UNCHANGED <<editorVars, viewModel, isUpdating, onChange, vms, microtasks,
                   stack, reconciles, notifications>>

\* return;
updateNoop(vm, forceSync) ==
    /\ requests' = Append(requests, Request(vm, forceSync, "noop"))
    /\ UNCHANGED <<editorVars, viewModel, isUpdating, onChange, vms, microtasks,
                   stack, reconciles, notifications>>

\* Mutant: the sync branch hands the reconciliation to a microtask.
updateSyncDeferred(vm, forceSync) ==
    /\ requests' = Append(requests, Request(vm, forceSync, "accepted"))
    /\ isUpdating' = isUpdating
    /\ microtasks' = Append(microtasks, [vm |-> vm, req |-> Len(requests) + 1])
    /\ UNCHANGED <<editorVars, viewModel, onChange, vms, stack, reconciles,
                   notifications>>

\* updateViewModel(viewModel, this);
updateSync(vm, forceSync) ==
    /\ requests' = Append(requests, Request(vm, forceSync, "accepted"))
    /\ isUpdating' = isUpdating
    /\ updateViewModel(vm, Len(requests) + 1, "inline")
    /\ UNCHANGED <<editorVars, viewModel, onChange, vms, microtasks, notifications>>

\* Mutant: the deferred branch does not raise this._isUpdating.
updateDeferredNoFlag(vm, forceSync) ==
    /\ requests' = Append(requests, Request(vm, forceSync, "accepted"))
    /\ isUpdating' = isUpdating
    /\ microtasks' = Append(microtasks, [vm |-> vm, req |-> Len(requests) + 1])
    /\ UNCHANGED <<editorVars, viewModel, onChange, vms, stack, reconciles,
                   notifications>>

\* Mutant: the deferred branch schedules the microtask and reconciles inline too.
updateDeferredEager(vm, forceSync) ==
    /\ requests' = Append(requests, Request(vm, forceSync, "accepted"))
    /\ isUpdating' = TRUE
    /\ microtasks' = Append(microtasks, [vm |-> vm, req |-> Len(requests) + 1])
    /\ updateViewModel(vm, Len(requests) + 1, "inline")
    /\ UNCHANGED <<editorVars, viewModel, onChange, vms, notifications>>

\* this._isUpdating = true; Promise.resolve().then(() => {...});
updateDeferred(vm, forceSync) ==
    /\ requests' = Append(requests, Request(vm, forceSync, "accepted"))
    /\ isUpdating' = TRUE
    /\ microtasks' = Append(microtasks, [vm |-> vm, req |-> Len(requests) + 1])
    /\ UNCHANGED <<editorVars, viewModel, onChange, vms, stack, reconciles,
                   notifications>>

update(vm, forceSync) ==
    /\ UserTurn
    /\ Len(requests) < MaxCalls
    /\ IF IsReentrant THEN updateThrows(vm, forceSync)
       ELSE IF IsCurrent(vm) THEN updateNoop(vm, forceSync)
       ELSE IF IsSync(forceSync) THEN updateSync(vm, forceSync)
       ELSE updateDeferred(vm, forceSync)

\* Mutant: the microtask forgets this._isUpdating = false.
deferredBoundaryKeepsFlag ==
    /\ stack = <<>>
    /\ microtasks # <<>>
    /\ microtasks' = Tail(microtasks)
    /\ isUpdating' = isUpdating
    /\ updateViewModel(Head(microtasks).vm, Head(microtasks).req, "boundary")
    /\ UNCHANGED <<editorVars, viewModel, onChange, vms, requests, notifications>>

\* The microtask: () => { this._isUpdating = false; updateViewModel(viewModel, this); }
\* It runs once the call stack has unwound.
deferredBoundary ==
    /\ stack = <<>>
    /\ microtasks # <<>>
    /\ microtasks' = Tail(microtasks)
    /\ isUpdating' = FALSE
    /\ updateViewModel(Head(microtasks).vm, Head(microtasks).req, "boundary")
    /\ UNCHANGED <<editorVars, viewModel, onChange, vms, requests, notifications>>

----------------------------------------------------------------------------
\* The Reconciler fails: updateViewModel throws before it commits, and the
\* exception unwinds the call.
reconcileFails ==
    /\ stack # <<>>
    /\ Top.pc = "commit"
    /\ stack' = SubSeq(stack, 1, Len(stack) - 1)
    /\ UNCHANGED <<editorVars, viewModel, isUpdating, onChange, vms, microtasks,
                   requests, reconciles, notifications>>

----------------------------------------------------------------------------
\* The accessors and the registries.

\* Every call of any kind made so far, the construction included.
TotalCalls == Len(requests) + Len(vms) + apiCalls

ApiTurn == UserTurn /\ TotalCalls < MaxApiCalls

\* Array.from(set)
RECURSIVE ArrayFrom(_)
ArrayFrom(S) ==
    IF S = {} THEN <<>>
    ELSE LET x == CHOOSE y \in S : TRUE IN <<x>> \o ArrayFrom(S \ {x})

\* The set held by a non-null nullable set.
TheSet(nullable) == CHOOSE S \in nullable : TRUE

\* nodeMap[nodeKey]
NodeAt(nodeMap, key) == IF key \in DOMAIN nodeMap THEN nodeMap[key] ELSE "undefined"

\* Mutant: the guard fails only when both dirty sets are null.
getDiffFromViewModelBothNull(vm) ==
    IF vm.dirtyNodes = Null /\ vm.dirtySubTrees = Null
    THEN [threw |-> TRUE,
          error |-> "getDiffFromViewModel: unable to get diff from view mode"]
    ELSE LET array == ArrayFrom(IF vm.dirtyNodes = Null THEN {} ELSE TheSet(vm.dirtyNodes))
         IN  [threw |-> FALSE,
              dirtySubTrees |-> IF vm.dirtySubTrees = Null THEN {}
                                ELSE TheSet(vm.dirtySubTrees),
              nodes |-> [i \in 1..Len(array) |-> NodeAt(vm.nodeMap, array[i])],
              selection |-> vm.selection,
              timeStamp |-> "Date.now()"]

\* Mutant: the diff lists every node of the map, not the dirty ones.
getDiffFromViewModelAllNodes(vm) ==
    IF vm.dirtyNodes = Null \/ vm.dirtySubTrees = Null
    THEN [threw |-> TRUE,
          error |-> "getDiffFromViewModel: unable to get diff from view mode"]
    ELSE LET array == ArrayFrom(DOMAIN vm.nodeMap)
         IN  [threw |-> FALSE,
              dirtySubTrees |-> TheSet(vm.dirtySubTrees),
              nodes |-> [i \in 1..Len(array) |-> NodeAt(vm.nodeMap, array[i])],
              selection |-> vm.selection,
              timeStamp |-> "Date.now()"]

\* OutlineEditor.getDiffFromViewModel(viewModel): the diff, or the error thrown.
getDiffFromViewModel(vm) ==
    IF vm.dirtyNodes = Null \/ vm.dirtySubTrees = Null
    THEN [threw |-> TRUE,
          error |-> "getDiffFromViewModel: unable to get diff from view mode"]
    ELSE LET array == ArrayFrom(TheSet(vm.dirtyNodes))
         IN  [threw |-> FALSE,
              dirtySubTrees |-> TheSet(vm.dirtySubTrees),
              nodes |-> [i \in 1..Len(array) |-> NodeAt(vm.nodeMap, array[i])],
              selection |-> vm.selection,
              timeStamp |-> "Date.now()"]

\* View models the caller has built by hand (the class is exported), with one
\* of the two dirty sets null.
HandMadeViewModels ==
    {[NewViewModel(createBodyNode) EXCEPT
         !.nodeMap = SetKey(@, "body", createBodyNode), !.dirtyNodes = Some({"body"})],
     [NewViewModel(createBodyNode) EXCEPT
         !.nodeMap = SetKey(@, "body", createBodyNode), !.dirtySubTrees = Some({"body"})]}

\* A call of getDiffFromViewModel by user code, on a view model of the heap
\* (ref > 0) or on a hand-made one (ref = 0).
GetDiff(ref, vm) ==
    /\ ApiTurn
    /\ lastCall' = [op |-> "getDiffFromViewModel", ref |-> ref, arg |-> vm,
                    result |-> getDiffFromViewModel(vm)]
    /\ apiCalls' = apiCalls + 1
    /\ UNCHANGED <<outlineEditor, editorElement, keyToDOMMap, registeredNodeTypes,
                   textTransforms, capabilities, nodeTypeOwner, viewModel, isUpdating,
                   onChange, vms, microtasks, stack, requests, reconciles,
                   notifications>>

\* OutlineEditor.getElementByKey(key): the element, or the error thrown.
getElementByKey(key) ==
    IF key \notin DOMAIN keyToDOMMap
    THEN [threw |-> TRUE, error |-> "getElementByKey failed for key", value |-> "none"]
    ELSE [threw |-> FALSE, error |-> "none", value |-> keyToDOMMap[key]]

GetElementByKey(key) ==
    /\ ApiTurn
    /\ lastCall' = [op |-> "getElementByKey", key |-> key,
                    result |-> getElementByKey(key)]
    /\ apiCalls' = apiCalls + 1
    /\ UNCHANGED <<outlineEditor, editorElement, keyToDOMMap, registeredNodeTypes,
                   textTransforms, capabilities, nodeTypeOwner, viewModel, isUpdating,
                   onChange, vms, microtasks, stack, requests, reconciles,
                   notifications>>

\* map.delete(key)
DeleteKey(map, key) == [k \in (DOMAIN map) \ {key} |-> map[k]]

\* OutlineEditor.addNodeType(nodeType, klass): the entry is set and a closure
\* over nodeType is returned.
addNodeType(nodeType, klass) ==
    /\ ApiTurn
    /\ registeredNodeTypes' = SetKey(registeredNodeTypes, nodeType, klass)
    /\ nodeTypeOwner' = SetKey(nodeTypeOwner, nodeType, Len(capabilities) + 1)
    /\ capabilities' = Append(capabilities,
                              [kind |-> "nodeType", key |-> nodeType, invoked |-> 0])
    /\ lastCall' = [op |-> "addNodeType", key |-> nodeType, klass |-> klass]
    /\ apiCalls' = apiCalls + 1
    /\ UNCHANGED <<outlineEditor, editorElement, keyToDOMMap, textTransforms,
                   viewModel, isUpdating, onChange, vms, microtasks, stack, requests,
                   reconciles, notifications>>

\* OutlineEditor.addTextTransform(transformFn)
addTextTransform(transformFn) ==
    /\ ApiTurn
    /\ textTransforms' = textTransforms \cup {transformFn}
    /\ capabilities' = Append(capabilities,
                              [kind |-> "textTransform", key |-> transformFn,
                               invoked |-> 0])
    /\ lastCall' = [op |-> "addTextTransform", key |-> transformFn]
    /\ apiCalls' = apiCalls + 1
    /\ UNCHANGED <<outlineEditor, editorElement, keyToDOMMap, registeredNodeTypes,
                   nodeTypeOwner, viewModel, isUpdating, onChange, vms, microtasks,
                   stack, requests, reconciles, notifications>>

\* Mutant: the closure of addNodeType deletes nothing.
unregisterNodeTypeForgets(registry, nodeType) == registry

\* () => { this._registeredNodeTypes.delete(nodeType); }
unregisterNodeType(registry, nodeType) == DeleteKey(registry, nodeType)

\* A closure returned by addNodeType or addTextTransform is invoked.
invokeCapability(c) ==
    /\ ApiTurn
    /\ c \in 1..Len(capabilities)
    /\ IF capabilities[c].kind = "nodeType"
       THEN /\ registeredNodeTypes' =
                  unregisterNodeType(registeredNodeTypes, capabilities[c].key)
            /\ nodeTypeOwner' =
                  [n \in DOMAIN registeredNodeTypes' |-> nodeTypeOwner[n]]
            /\ UNCHANGED textTransforms
       ELSE /\ textTransforms' = textTransforms \ {capabilities[c].key}
            /\ UNCHANGED <<registeredNodeTypes, nodeTypeOwner>>
    /\ capabilities' = [capabilities EXCEPT ![c].invoked = @ + 1]
    /\ lastCall' = [op |-> "unregister", cap |-> c]
    /\ apiCalls' = apiCalls + 1
    /\ UNCHANGED <<outlineEditor, editorElement, keyToDOMMap, viewModel, isUpdating,
                   onChange, vms, microtasks, stack, requests, reconciles,
                   notifications>>

----------------------------------------------------------------------------
Next ==
    \/ \E cb \in Callbacks : useOutlineEditor("root", cb)
    \/ \E dirty \in DirtyChoices : createViewModel(dirty)
    \/ \E vm \in ViewModelRefs, forceSync \in BOOLEAN : update(vm, forceSync)
    \/ deferredBoundary
    \/ reconcileCommit
    \/ notifyOnChange
    \/ callbackReturn

Spec == Init /\ [][Next]_vars

\* The microtask queue is drained once the call stack is empty, and a call in
\* progress (the Reconciler, the change callback) runs to its return.
FairSpec ==
    /\ Spec
    /\ WF_vars(deferredBoundary)
    /\ WF_vars(reconcileCommit)
    /\ WF_vars(notifyOnChange)
    /\ WF_vars(callbackReturn)

\* The scheduler with a Reconciler that may fail.
FailNext ==
    \/ Next
    \/ reconcileFails

FailSpec == Init /\ [][FailNext]_vars

\* The whole API of the editor: the scheduler, the accessors and the
\* registries, within a budget of calls.
ApiNext ==
    \/ \E cb \in Callbacks : useOutlineEditor("root", cb)
    \/ \E dirty \in DirtyChoices : ApiTurn /\ createViewModel(dirty)
    \/ \E vm \in ViewModelRefs, forceSync \in BOOLEAN : ApiTurn /\ update(vm, forceSync)
    \/ deferredBoundary
    \/ reconcileCommit
    \/ notifyOnChange
    \/ callbackReturn
    \/ \E ref \in ViewModelRefs : GetDiff(ref, vms[ref])
    \/ \E vm \in HandMadeViewModels : GetDiff(0, vm)
    \/ \E key \in Keys : GetElementByKey(key)
    \/ \E nodeType \in TypeNames, klass \in Classes : addNodeType(nodeType, klass)
    \/ \E transformFn \in Transforms : addTextTransform(transformFn)
    \/ \E c \in 1..Len(capabilities) : invokeCapability(c)

ApiSpec == Init /\ [][ApiNext]_vars

----------------------------------------------------------------------------
\* Vocabulary of the properties.

\* The scheduler's states: UpdatePending while a scheduled microtask has not run.
UpdatePending == microtasks # <<>>
Idle == ~isUpdating

\* This step is a call of update; LastRequest' is its history entry.
UpdateCalled == Len(requests') = Len(requests) + 1
LastRequest == requests[Len(requests)]

\* The call was made on an Idle editor with a view model other than the current one.
Acceptable(r) == ~r.updating /\ r.vm # r.current

\* The frames of request i on the call stack.
FramesOf(i) == {k \in 1..Len(stack) : stack[k].req = i}
\* The Reconciler invocations and the change notifications of request i.
ReconcilesOf(i) == {j \in 1..Len(reconciles) : reconciles[j].req = i}
NotificationsOf(i) == {j \in 1..Len(notifications) : notifications[j].req = i}

----------------------------------------------------------------------------
\* C1: while a deferred update is scheduled and its boundary has not fired,
\* every call of update, for any view model and either value of forceSync,
\* fails with the reentrancy error.
C1_PendingRejectsEveryUpdate ==
    [][(UpdatePending /\ UpdateCalled) =>
          LastRequest'.outcome = "ReentrancyError"]_vars

\* The scheduled view model itself, submitted again with forceSync during the
\* UpdatePending window, has been rejected.
C1_Witness ==
    /\ UpdatePending
    /\ Len(requests) >= 2
    /\ LastRequest.pending > 0
    /\ LastRequest.forceSync
    /\ LastRequest.vm = Head(microtasks).vm
    /\ LastRequest.outcome = "ReentrancyError"

----------------------------------------------------------------------------
\* The deferred call returns with the flag raised, nothing reconciled and the
\* previous view model still current.
C2_CallReturnsPending ==
    (UpdateCalled /\ Acceptable(LastRequest') /\ ~LastRequest'.forceSync) =>
        /\ isUpdating'
        /\ viewModel' = viewModel
        /\ viewModel' # LastRequest'.vm
        /\ stack' = stack
        /\ reconciles' = reconciles

\* The boundary of a deferred call has fired and no call accepted since: the
\* flag is down, and from the handler's commit on its view model is current.
C2_FiredBoundary ==
    \A j \in 1..Len(reconciles) :
        (/\ reconciles[j].via = "boundary"
         /\ \A i \in (reconciles[j].req + 1)..Len(requests) :
               ~Acceptable(requests[i])) =>
            /\ ~isUpdating
            /\ reconciles[j].vm = requests[reconciles[j].req].vm
            /\ (\A k \in FramesOf(reconciles[j].req) : stack[k].pc # "commit")
                   => viewModel = reconciles[j].vm

\* C2: a deferred update(vm) on an Idle editor, vm not current, returns with
\* isUpdating() true and the previous view model still current; once the
\* boundary has fired isUpdating() is false, and once its handler has committed
\* getCurrentViewModel() is vm (until a later update call is accepted).
C2_DeferredUpdate == [][C2_CallReturnsPending]_vars /\ []C2_FiredBoundary

\* The boundary of a deferred update has fired and its handler has returned.
C2_Witness ==
    /\ stack = <<>>
    /\ Len(requests) = 1
    /\ ~requests[1].forceSync
    /\ Len(reconciles) = 1
    /\ reconciles[1].via = "boundary"
    /\ viewModel = requests[1].vm
    /\ viewModel # requests[1].current
    /\ ~isUpdating

----------------------------------------------------------------------------
\* C3 as stated: while a sync update is in progress (from its call to its
\* return) isUpdating() is false and no deferred boundary is scheduled.
C3_SyncNeverPendingUntilReturn ==
    \A k \in 1..Len(stack) :
        stack[k].via = "inline" => (~isUpdating /\ ~UpdatePending)

\* The sync call starts the Reconciler on vm within the call, leaves the flag
\* down and schedules nothing.
C3_SyncCall ==
    (UpdateCalled /\ Acceptable(LastRequest') /\ LastRequest'.forceSync) =>
        /\ ~isUpdating'
        /\ microtasks' = microtasks
        /\ reconciles' = Append(reconciles, reconciles'[Len(reconciles')])
        /\ reconciles'[Len(reconciles')].vm = LastRequest'.vm
        /\ reconciles'[Len(reconciles')].req = Len(requests')
        /\ reconciles'[Len(reconciles')].via = "inline"
        /\ \E k \in 1..Len(stack') : stack'[k].req = Len(requests')

\* While a sync update is in progress, the flag is up or a boundary scheduled
\* only if its change callback has made an accepted deferred update call.
C3_SyncInProgress ==
    \A k \in 1..Len(stack) :
        (stack[k].via = "inline" /\ (isUpdating \/ UpdatePending)) =>
            \E i \in (stack[k].req + 1)..Len(requests) :
                /\ Acceptable(requests[i])
                /\ ~requests[i].forceSync
                /\ stack[k].pc = "callback"

\* C3, amended: update(vm, forceSync = true) on an Idle editor, vm not current,
\* invokes the Reconciler within the call and itself neither sets isUpdating
\* nor schedules a boundary; until it returns isUpdating() is false and
\* nothing is scheduled unless the change callback, running inside the call,
\* has itself requested a deferred update.
C3_SyncUpdate == [][C3_SyncCall]_vars /\ []C3_SyncInProgress

\* A sync update is inside its change callback: committed, Idle, nothing scheduled.
C3_Witness ==
    /\ Len(stack) = 1
    /\ stack[1].via = "inline"
    /\ stack[1].pc = "callback"
    /\ requests[stack[1].req].forceSync
    /\ viewModel = stack[1].vm
    /\ ~isUpdating
    /\ ~UpdatePending

----------------------------------------------------------------------------
\* Every call so far was made on an Idle editor.
AllIssuedIdle == \A i \in 1..Len(requests) : ~requests[i].updating

\* Every call has returned and every deferred boundary has fired.
Quiescent == stack = <<>> /\ microtasks = <<>>

\* The calls that were not no-ops: their view model was not the current one.
Effective == {i \in 1..Len(requests) : requests[i].vm # requests[i].current}

Max(S) == CHOOSE m \in S : \A n \in S : n <= m

\* C4: after any sequence of update calls, each made on an Idle editor, once
\* every deferred boundary has fired the editor is Idle and the current view
\* model is that of the last call that was not a no-op (the initial view
\* model, the first object of the heap, when there was none).
C4_EndsIdleWithLastRequest ==
    (outlineEditor = "editor" /\ AllIssuedIdle /\ Quiescent) =>
        /\ Idle
        /\ viewModel = IF Effective = {} THEN 1 ELSE requests[Max(Effective)].vm

\* A deferred and then a sync update, both effective, have run to the end.
C4_Witness ==
    /\ Quiescent
    /\ AllIssuedIdle
    /\ Len(requests) = 2
    /\ Effective = {1, 2}
    /\ ~requests[1].forceSync
    /\ requests[2].forceSync
    /\ viewModel = requests[2].vm
    /\ viewModel # 1

----------------------------------------------------------------------------
\* The scheduled microtasks of request i.
ScheduledOf(i) == {k \in 1..Len(microtasks) : microtasks[k].req = i}

\* C5: an accepted update call (Idle editor, view model not current) causes
\* exactly one Reconciler invocation, for its view model: at any time it has
\* either run once or is scheduled once, and it has run once when nothing is
\* scheduled; a rejected or no-op call causes none.
C5_ExactlyOnce ==
    /\ \A j \in 1..Len(reconciles) : reconciles[j].req \in 1..Len(requests)
    /\ \A i \in 1..Len(requests) :
          IF Acceptable(requests[i])
          THEN /\ Cardinality(ReconcilesOf(i)) + Cardinality(ScheduledOf(i)) = 1
               /\ \A j \in ReconcilesOf(i) : reconciles[j].vm = requests[i].vm
               /\ \A k \in ScheduledOf(i) : microtasks[k].vm = requests[i].vm
               /\ ~UpdatePending => Cardinality(ReconcilesOf(i)) = 1
          ELSE ReconcilesOf(i) = {} /\ ScheduledOf(i) = {}

\* An accepted deferred call has been reconciled once; a rejected call made
\* during its window has not.
C5_Witness ==
    /\ Quiescent
    /\ Len(requests) = 2
    /\ Acceptable(requests[1])
    /\ ~requests[1].forceSync
    /\ requests[2].updating
    /\ requests[2].vm # requests[1].vm
    /\ Len(reconciles) = 1

----------------------------------------------------------------------------
\* C6: the Reconciler is invoked in the order the accepted updates were
\* requested, and for a deferred update only by the boundary handler: not
\* while the update is still scheduled.
C6_OrderedAndNotEarly ==
    /\ \A j1, j2 \in 1..Len(reconciles) :
          j1 < j2 => reconciles[j1].req < reconciles[j2].req
    /\ \A i1, i2 \in 1..Len(requests) :
          (i1 < i2 /\ Acceptable(requests[i1]) /\ ReconcilesOf(i2) # {})
             => ReconcilesOf(i1) # {}
    /\ \A j \in 1..Len(reconciles) :
          ~requests[reconciles[j].req].forceSync => reconciles[j].via = "boundary"
    /\ \A k \in 1..Len(microtasks) : ReconcilesOf(microtasks[k].req) = {}

\* A deferred update and then a sync update have both been reconciled, in order.
C6_Witness ==
    /\ Len(reconciles) = 2
    /\ reconciles[1].via = "boundary"
    /\ reconciles[2].via = "inline"
    /\ reconciles[1].vm # reconciles[2].vm

----------------------------------------------------------------------------
\* C7: a scheduled update is never cancelled: under FairSpec, once request i is
\* scheduled the Reconciler is eventually invoked with its view model and the
\* editor is eventually Idle again, whatever calls are made meanwhile.
C7_PendingAlwaysRuns ==
    /\ \A i \in 1..MaxCalls :
          (ScheduledOf(i) # {})
             ~> (\E j \in ReconcilesOf(i) : reconciles[j].vm = requests[i].vm)
    /\ isUpdating ~> Idle

\* A call was rejected during the window of a scheduled update, which then ran.
C7_Witness ==
    /\ Len(requests) = 2
    /\ requests[2].outcome = "ReentrancyError"
    /\ ReconcilesOf(1) # {}
    /\ viewModel = requests[1].vm
    /\ Idle
    /\ Quiescent

----------------------------------------------------------------------------
\* C8: on an Idle editor, update with the current view model is a no-op for
\* either value of forceSync: no Reconciler invocation, no boundary scheduled,
\* isUpdating() still false, the current view model unchanged.
C8_CurrentIsNoop ==
    [][(UpdateCalled /\ ~isUpdating /\ LastRequest'.vm = viewModel) =>
          /\ ~isUpdating'
          /\ UNCHANGED <<viewModel, microtasks, stack, reconciles,
                         notifications, vms>>]_vars

\* The current view model has been submitted with and without forceSync.
C8_Witness ==
    /\ Len(requests) = 2
    /\ \A i \in {1, 2} : ~requests[i].updating /\ requests[i].vm = requests[i].current
    /\ requests[1].forceSync # requests[2].forceSync
    /\ reconciles = <<>>
    /\ Idle

----------------------------------------------------------------------------
\* C9: every commit made through update notifies the change callback (when one
\* is set) once, with the view model just committed: from inside the update
\* call on the sync path, from the boundary handler on the deferred path, not
\* before the commit and not later than the return of the committing call.
C9_CommitNotifies ==
    \A j \in 1..Len(reconciles) :
        LET e == reconciles[j]
            frames == FramesOf(e.req)
            notes == NotificationsOf(e.req)
        IN  /\ Cardinality(notes) <= 1
            /\ \A n \in notes : notifications[n].vm = e.vm /\ notifications[n].via = e.via
            /\ e.via = IF requests[e.req].forceSync THEN "inline" ELSE "boundary"
            /\ (\E k \in frames : stack[k].pc = "commit") => notes = {}
            /\ (\E k \in frames : stack[k].pc = "notify") => viewModel = e.vm
            /\ ((\A k \in frames : stack[k].pc = "callback") /\ IsFunction(e.onChange))
                  => Cardinality(notes) = 1

\* A sync commit notified from inside the call, then a deferred commit
\* notified by the boundary handler.
C9_Witness ==
    /\ Len(notifications) = 3
    /\ notifications[2].via = "inline"
    /\ notifications[3].via = "boundary"
    /\ notifications[3].vm = viewModel
    /\ stack # <<>>

----------------------------------------------------------------------------
\* The construction step, when a callback is given.
C10_Construction ==
    (outlineEditor = "null" /\ outlineEditor' = "editor" /\ IsFunction(onChange')) =>
        /\ notifications' = <<[vm |-> viewModel', via |-> "construct", req |-> 0]>>
        /\ requests' = <<>>
        /\ reconciles' = <<>>
        /\ DOMAIN vms'[viewModel'].nodeMap = {"body"}
        /\ vms'[viewModel'].nodeMap["body"] = vms'[viewModel'].body
        /\ vms'[viewModel'].body.type = "body"
        /\ ~isUpdating'
        /\ microtasks' = <<>>

\* The construction notification is never repeated.
C10_OnceOnly ==
    Cardinality({n \in 1..Len(notifications) : notifications[n].via = "construct"}) <= 1

\* C10: constructing an editor with a change callback calls it exactly once,
\* before any update call, with the initial view model, whose nodeMap holds
\* the root node only; that view model is current and the editor is Idle.
C10_ConstructorNotifiesOnce == [][C10_Construction]_vars /\ []C10_OnceOnly

\* The editor has just been constructed with a callback; no update was made.
C10_Witness ==
    /\ outlineEditor = "editor"
    /\ onChange = "onChange"
    /\ requests = <<>>
    /\ Len(notifications) = 1
    /\ notifications[1].vm = viewModel
    /\ DOMAIN vms[viewModel].nodeMap = {"body"}
    /\ Idle
----------------------------------------------------------------------------
\* The accessor and registry calls, as steps and as history.

\* The step is a call of an accessor, of a registry method or of a capability.
ApiCalled == apiCalls' = apiCalls + 1

\* Everything the editor and the view models hold.
EditorState ==
    <<outlineEditor, editorElement, keyToDOMMap, registeredNodeTypes, textTransforms,
      nodeTypeOwner, viewModel, isUpdating, onChange, vms, microtasks, stack>>

IsPending(vm) == vm.dirtyNodes # Null /\ vm.dirtySubTrees # Null

\* C11: getDiffFromViewModel of a pending view model with dirty keys D returns
\* a diff whose nodes are exactly nodeMap[k] for k in D, one per key, whose
\* dirtySubTrees and selection are the view model's; the call changes no
\* editor or view-model state.
C11_DiffOfPending ==
    (lastCall.op = "getDiffFromViewModel" /\ IsPending(lastCall.arg)) =>
        LET D == TheSet(lastCall.arg.dirtyNodes)
            diff == lastCall.result
        IN  /\ ~diff.threw
            /\ Len(diff.nodes) = Cardinality(D)
            /\ {diff.nodes[i] : i \in 1..Len(diff.nodes)} =
                   {lastCall.arg.nodeMap[k] : k \in D}
            /\ diff.dirtySubTrees = TheSet(lastCall.arg.dirtySubTrees)
            /\ diff.selection = lastCall.arg.selection

C11_DiffChangesNothing ==
    (ApiCalled /\ lastCall'.op = "getDiffFromViewModel" /\ IsPending(lastCall'.arg)) =>
        UNCHANGED EditorState

C11_PendingDiff == []C11_DiffOfPending /\ [][C11_DiffChangesNothing]_vars

\* A pending view model of the factory with one dirty key out of two nodes
\* has been diffed.
C11_Witness ==
    /\ lastCall.op = "getDiffFromViewModel"
    /\ lastCall.ref \in ViewModelRefs
    /\ IsPending(lastCall.arg)
    /\ TheSet(lastCall.arg.dirtyNodes) = {"x"}
    /\ DOMAIN lastCall.arg.nodeMap = {"body", "x"}
    /\ Len(lastCall.result.nodes) = 1

\* Request i's Reconciler invocation has committed its view model.
HasCommitted(j) ==
    \A k \in FramesOf(reconciles[j].req) : stack[k].pc # "commit"

\* C12: getDiffFromViewModel fails with the invariant error whenever
\* dirtyNodes or dirtySubTrees, either one, is null; after an update has
\* committed a view model its diff fails; the failure changes no editor state.
C12_FailsWithoutDirtySets ==
    (lastCall.op = "getDiffFromViewModel" /\ ~IsPending(lastCall.arg)) =>
        /\ lastCall.result.threw
        /\ lastCall.result.error =
               "getDiffFromViewModel: unable to get diff from view mode"

C12_CommittedHasNoDiff ==
    \A j \in 1..Len(reconciles) :
        HasCommitted(j) => getDiffFromViewModel(vms[reconciles[j].vm]).threw

C12_FailureChangesNothing ==
    (ApiCalled /\ lastCall'.op = "getDiffFromViewModel" /\ lastCall'.result.threw) =>
        UNCHANGED EditorState

C12_CommittedDiffFails ==
    /\ [](C12_FailsWithoutDirtySets /\ C12_CommittedHasNoDiff)
    /\ [][C12_FailureChangesNothing]_vars

\* The diff of a view model that an update has committed was asked for, and
\* failed.
C12_Witness ==
    /\ lastCall.op = "getDiffFromViewModel"
    /\ lastCall.result.threw
    /\ \E j \in 1..Len(reconciles) : HasCommitted(j) /\ reconciles[j].vm = lastCall.ref

\* The step invokes capability c.
Invokes(c) ==
    /\ ApiCalled
    /\ lastCall' = [op |-> "unregister", cap |-> c]
    /\ c \in 1..Len(capabilities)

IsNodeTypeCapability(c) == capabilities[c].kind = "nodeType"

\* C14: invoking the capability returned by addNodeType(name, K) leaves the
\* registry with no entry for name, and invoking it again straight away
\* leaves the registry unchanged.
C14_Step ==
    \A c \in 1..Len(capabilities) :
        (Invokes(c) /\ IsNodeTypeCapability(c)) =>
            /\ capabilities[c].key \notin DOMAIN registeredNodeTypes'
            /\ (lastCall = [op |-> "unregister", cap |-> c]) =>
                   registeredNodeTypes' = registeredNodeTypes

C14_AfterAdd ==
    (lastCall.op = "addNodeType") =>
        /\ lastCall.key \in DOMAIN registeredNodeTypes
        /\ registeredNodeTypes[lastCall.key] = lastCall.klass

C14_UnregisterRemoves == []C14_AfterAdd /\ [][C14_Step]_vars

\* A capability of addNodeType has been invoked twice running.
C14_Witness ==
    /\ lastCall.op = "unregister"
    /\ IsNodeTypeCapability(lastCall.cap)
    /\ capabilities[lastCall.cap].invoked = 2
    /\ capabilities[lastCall.cap].key \notin DOMAIN registeredNodeTypes

\* C15: the capability returned by addNodeType removes exactly the entry its
\* own call registered: every registration made by another call, a later
\* addNodeType for the same name included, is still in the registry afterwards.
C15_Step ==
    \A c \in 1..Len(capabilities) :
        (Invokes(c) /\ IsNodeTypeCapability(c)) =>
            \A n \in DOMAIN registeredNodeTypes :
                nodeTypeOwner[n] # c =>
                    /\ n \in DOMAIN registeredNodeTypes'
                    /\ registeredNodeTypes'[n] = registeredNodeTypes[n]

C15_RemovesExactlyItsEntry == [][C15_Step]_vars

\* C16: in every state after construction getElementByKey('body') returns
\* the root element given at construction, and getElementByKey of a key with
\* no binding fails with the lookup error.
C16_RootBound ==
    outlineEditor # "null" =>
        /\ getElementByKey("body") =
               [threw |-> FALSE, error |-> "none", value |-> editorElement]
        /\ \A key \in Keys :
               key \notin DOMAIN keyToDOMMap =>
                   /\ getElementByKey(key).threw
                   /\ getElementByKey(key).error = "getElementByKey failed for key"

C16_Calls ==
    lastCall.op = "getElementByKey" =>
        IF lastCall.result.threw
        THEN lastCall.key # "body"
        ELSE lastCall.key = "body" => lastCall.result.value = editorElement

C16_RootBindingStays == C16_RootBound /\ C16_Calls

\* The root's element was read after the Reconciler has committed a view
\* model and bound the element of another key.
C16_Witness ==
    /\ lastCall = [op |-> "getElementByKey", key |-> "body",
                   result |-> [threw |-> FALSE, error |-> "none", value |-> "root"]]
    /\ Len(reconciles) >= 1
    /\ HasCommitted(1)
    /\ DOMAIN keyToDOMMap = {"body", "x"}
----------------------------------------------------------------------------
\* The Reconciler's invocations, as frames.

Rejected(i) == requests[i].outcome = "ReentrancyError"

\* The frames in which the Reconciler has not yet committed.
Committing == {k \in 1..Len(stack) : stack[k].pc = "commit"}

\* C13 as the specification states it: the Reconciler never commits a view
\* model that is already committed; a superseded, committed view model
\* submitted again to update is not committed again.
C13_CommittedExactlyOnce ==
    \A k \in Committing : IsPending(vms[stack[k].vm])

\* C13: the dirty tracking a commit has cleared is never restored, and the
\* Reconciler is never handed the view model that is current; a superseded,
\* committed view model submitted again is handed to it and committed again.
C13_NeverCurrent ==
    \A k \in Committing : stack[k].vm # viewModel

C13_CommitStep ==
    \A ref \in ViewModelRefs :
        /\ ~IsPending(vms[ref]) => ~IsPending(vms'[ref])
        /\ (IsPending(vms[ref]) /\ ~IsPending(vms'[ref])) =>
               /\ stack # <<>>
               /\ Top.pc = "commit"
               /\ Top.vm = ref
               /\ viewModel' = ref

C13_CommitIsFinal == []C13_NeverCurrent /\ [][C13_CommitStep]_vars

\* The view model of the constructor, superseded by an update, has been
\* submitted again and committed by the Reconciler.
C13_Witness ==
    /\ Len(reconciles) = 2
    /\ HasCommitted(1)
    /\ HasCommitted(2)
    /\ reconciles[1].vm # reconciles[2].vm
    /\ requests[reconciles[2].req].vm = requests[reconciles[1].req].current
    /\ viewModel = reconciles[2].vm

\* The step is the failure of the Reconciler invocation on top of the stack.
ReconcilerFails ==
    /\ stack # <<>>
    /\ Top.pc = "commit"
    /\ Len(stack') = Len(stack) - 1

\* The Reconciler invocation reconciles[j] has failed.
HasFailed(j) ==
    /\ FramesOf(reconciles[j].req) = {}
    /\ IsPending(vms[reconciles[j].vm])
    /\ viewModel # reconciles[j].vm

\* C17: when the deferred boundary fires the editor is Idle before the
\* Reconciler starts; it is left Idle when that Reconciler invocation fails;
\* and an update requested from inside that reconciliation is not rejected on
\* account of the boundary that fired, only when a deferred update accepted
\* after it is scheduled.
C17_IdleAtReconcilerStart ==
    \A j \in 1..Len(reconciles) :
        reconciles[j].via = "boundary" => ~reconciles[j].updating

C17_Step ==
    /\ (ReconcilerFails /\ Top.via = "boundary") => (~isUpdating /\ ~isUpdating')
    /\ (UpdateCalled /\ stack # <<>> /\ stack[1].via = "boundary" /\ ~UpdatePending) =>
           ~Rejected(Len(requests))'

C17_IdleBeforeReconciler == []C17_IdleAtReconcilerStart /\ [][C17_Step]_vars

\* The boundary has fired and its Reconciler invocation has failed.
C17_Witness ==
    /\ \E j \in 1..Len(reconciles) : reconciles[j].via = "boundary" /\ HasFailed(j)
    /\ stack = <<>>
    /\ Idle

\* C18 as the specification states it: a view model whose update call was
\* rejected becomes current only if it is submitted again later.
C18_CurrentOnlyIfResubmitted ==
    \A i \in 1..Len(requests) :
        (Rejected(i) /\ viewModel = requests[i].vm /\ requests[i].current # viewModel) =>
            \E k \in (i + 1)..Len(requests) :
                requests[k].vm = requests[i].vm /\ ~Rejected(k)

\* C18: a rejected update call changes nothing and is never queued or
\* retried: isUpdating() stays true, the current view model and the scheduled
\* one are unchanged, the boundary commits the scheduled view model, and the
\* rejected view model becomes current only through another, accepted call
\* for it: a later one, or the one already scheduled.
C18_Step ==
    (UpdateCalled /\ Rejected(Len(requests))') =>
        /\ isUpdating
        /\ UNCHANGED <<isUpdating, viewModel, microtasks, vms, stack, keyToDOMMap,
                       onChange, reconciles, notifications>>

C18_NeverReconciled ==
    \A j \in 1..Len(reconciles) : ~Rejected(reconciles[j].req)

C18_ScheduledIsCommitted ==
    \A j \in 1..Len(reconciles) :
        reconciles[j].via = "boundary" =>
            /\ requests[reconciles[j].req].outcome = "accepted"
            /\ ~requests[reconciles[j].req].forceSync
            /\ requests[reconciles[j].req].vm = reconciles[j].vm

C18_CurrentOnlyByAcceptedCall ==
    \A i \in 1..Len(requests) :
        (Rejected(i) /\ viewModel = requests[i].vm /\ requests[i].current # viewModel) =>
            \E k \in 1..Len(requests) :
                /\ requests[k].vm = requests[i].vm
                /\ requests[k].outcome = "accepted"
                /\ \E j \in ReconcilesOf(k) : HasCommitted(j)

C18_RejectedChangesNothing ==
    /\ [](C18_NeverReconciled /\ C18_ScheduledIsCommitted /\ C18_CurrentOnlyByAcceptedCall)
    /\ [][C18_Step]_vars

\* A view model was scheduled, another one was rejected, and the boundary has
\* committed the scheduled one.
C18_Witness ==
    /\ Len(requests) = 2
    /\ requests[1].outcome = "accepted"
    /\ Rejected(2)
    /\ requests[2].vm # requests[1].vm
    /\ requests[2].vm # requests[2].current
    /\ viewModel = requests[1].vm
    /\ stack = <<>>
    /\ ~UpdatePending

\* C19: at most one deferred reconciliation is scheduled and not yet fired,
\* isUpdating() is true exactly when one is, and the scheduled view model is
\* not the current one.
C19_OneScheduled ==
    /\ Len(microtasks) <= 1
    /\ isUpdating <=> UpdatePending
    /\ \A k \in 1..Len(microtasks) : microtasks[k].vm # viewModel

\* A deferred update, scheduled from inside the change callback of a commit,
\* is pending.
C19_Witness ==
    /\ UpdatePending
    /\ isUpdating
    /\ InCallback
    /\ Len(reconciles) = 1

\* C20 as the specification states it: a Reconciler invocation never begins
\* while another one is in progress.
C20_NoReconcilerInsideReconciler == Len(stack) <= 1

\* C20: Reconciler invocations nest and never overlap otherwise: one begins
\* inside another only for a sync update called from the change callback, after
\* the outer one has committed, and the outer one resumes when the inner one
\* has returned; a deferred reconciliation begins on an empty stack.
C20_ProperlyNested ==
    \A k \in 1..Len(stack) :
        /\ k < Len(stack) => stack[k].pc = "callback"
        /\ k > 1 => (stack[k].via = "inline" /\ requests[stack[k].req].forceSync)
        /\ stack[k].via = "boundary" => k = 1

C20_Step ==
    Len(reconciles') = Len(reconciles) + 1 =>
        /\ stack' = Append(stack, stack'[Len(stack')])
        /\ stack # <<>> => (InCallback /\ UpdateCalled)

C20_NestedNotInterleaved == []C20_ProperlyNested /\ [][C20_Step]_vars

\* A sync update called from the change callback has started the Reconciler
\* inside the Reconciler invocation that called the callback.
C20_Witness ==
    /\ Len(stack) = 2
    /\ stack[1].pc = "callback"
    /\ stack[2].pc = "commit"
    /\ stack[2].via = "inline"
====
